---- MODULE Spec2Model ----
(***************************************************************************)
(* A model of flowcraft/templates/trimmomatic.py: one run of main(), which *)
(* builds the Trimmomatic command line, runs the tool, parses its trim log *)
(* into statistics, writes the CSV / JSON reports, cleans the working      *)
(* directory and writes the status file.                                   *)
(*                                                                         *)
(* A Python str is a sequence of one-character strings, so that endswith,  *)
(* rstrip, int(), str() and re.match are computed character by character.  *)
(* Atomic texts that the program only compares or copies (clear, the       *)
(* status text, stderr) are TLA+ strings.                                  *)
(***************************************************************************)
EXTENDS Integers, Sequences, FiniteSets, TLC

VARIABLES
    pc,          \* position of main(): start, built, invoked, logged, cleaned, done, failed
    args,        \* the arguments of main(), never modified
    tool,        \* what the external Trimmomatic process does when it is run
    files,       \* absolute paths of the regular files on disk
    links,       \* symbolic links of the working directory: [name, target]
    trimlog,     \* content of {sample_id}_trimlog.txt: File(lines), or NoFile
    cli,         \* the argument vector built by main()
    merge_calls, \* number of calls of merge_default_adapters()
    p,           \* returncode and decoded stderr of the finished subprocess
    stats,       \* the OrderedDict returned by parse_log()
    report_csv,  \* trimmomatic_report.csv: File(header and rows), or NoFile
    report_json, \* .report.json, or NoFile
    status,      \* text of .status ("" while main has not written it)
    err          \* the exception that ended main(), "" if none

vars == <<pc, args, tool, files, links, trimlog, cli, merge_calls, p, stats,
          report_csv, report_json, status, err>>

\* a file that does not exist
NoFile == [exists |-> FALSE]

File(content) == [exists |-> TRUE, content |-> content]

-----------------------------------------------------------------------------
(* Python str methods                                                      *)

startswith(s, prefix) ==
    Len(s) >= Len(prefix) /\ SubSeq(s, 1, Len(prefix)) = prefix

endswith(s, suffix) ==
    Len(s) >= Len(suffix) /\ SubSeq(s, Len(s) - Len(suffix) + 1, Len(s)) = suffix

Chars(s) == {s[i] : i \in 1..Len(s)}

\* s.rstrip(chars): drops every trailing character that is one of chars
RECURSIVE rstrip(_, _)
rstrip(s, chars) ==
    IF Len(s) > 0 /\ s[Len(s)] \in Chars(chars)
    THEN rstrip(SubSeq(s, 1, Len(s) - 1), chars)
    ELSE s

\* s.replace(" ", "")
RECURSIVE remove_spaces(_)
remove_spaces(s) ==
    IF s = <<>> THEN <<>>
    ELSE IF Head(s) = " " THEN remove_spaces(Tail(s))
    ELSE <<Head(s)>> \o remove_spaces(Tail(s))

\* s.lower(), on the letters of a memory unit
lower(s) ==
    [i \in 1..Len(s) |->
        CASE s[i] = "G" -> "g" [] s[i] = "M" -> "m" [] s[i] = "K" -> "k"
          [] s[i] = "B" -> "b" [] s[i] = "T" -> "t" [] OTHER -> s[i]]

Digits == <<"0", "1", "2", "3", "4", "5", "6", "7", "8", "9">>

IsDigit(c) == \E d \in 1..10 : Digits[d] = c

DigitVal(c) == (CHOOSE d \in 1..10 : Digits[d] = c) - 1

Unsigned(x) == IF Len(x) > 0 /\ x[1] \in {"-", "+"} THEN Tail(x) ELSE x

\* whether int(x) returns (it raises ValueError otherwise)
int_ok(x) ==
    Len(Unsigned(x)) > 0 /\ \A i \in 1..Len(Unsigned(x)) : IsDigit(Unsigned(x)[i])

RECURSIVE digits_value(_)
digits_value(b) ==
    IF b = <<>> THEN 0
    ELSE 10 * digits_value(SubSeq(b, 1, Len(b) - 1)) + DigitVal(b[Len(b)])

\* int(x) of a str that int_ok accepts
py_int(x) ==
    IF Len(x) > 0 /\ x[1] = "-" THEN 0 - digits_value(Unsigned(x))
    ELSE digits_value(Unsigned(x))

\* str(n) of an int
RECURSIVE py_str(_)
py_str(n) ==
    IF n < 0 THEN <<"-">> \o py_str(0 - n)
    ELSE IF n < 10 THEN <<Digits[n + 1]>>
    ELSE py_str(n \div 10) \o <<Digits[(n % 10) + 1]>>

-----------------------------------------------------------------------------
(* The working directory and the paths of the model                        *)

Rep(c, n) == [i \in 1..n |-> c]

\* the task's working directory (a Nextflow work directory)
CWD == <<"/","w","o","r","k","/","a","b","/">> \o Rep("c", 30)

\* os.path.join(os.getcwd(), name)
in_cwd(name) == CWD \o <<"/">> \o name

IsCwdEntry(path) ==
    /\ startswith(path, CWD \o <<"/">>)
    /\ \A i \in (Len(CWD) + 2)..Len(path) : path[i] # "/"

basename(path) == SubSeq(path, Len(CWD) + 2, Len(path))

\* os.listdir("."), as far as names of fastq files go
listdir(fs) ==
    {basename(f) : f \in {g \in fs.files : IsCwdEntry(g)}}
        \cup {l.name : l \in fs.links}

\* os.path.realpath(fq): follows the symbolic link of that name, if any
realpath(fq, fs) ==
    IF startswith(fq, <<"/">>) THEN fq
    ELSE IF \E l \in fs.links : l.name = fq
         THEN (CHOOSE l \in fs.links : l.name = fq).target
         ELSE in_cwd(fq)

TRIM_PATH == <<"/","N","G","S","t","o","o","l","s","/","T","r","i","m","m","o","m","a","t","i","c","-","0",".","3","6","/","t","r","i","m","m","o","m","a","t","i","c",".","j","a","r">>

task_memory == <<"4"," ","G","B">>

task_cpus == <<"2">>

SUFFIX_U == <<"_","U",".","f","a","s","t","q",".","g","z">>

SUFFIX_TRIM == <<"_","t","r","i","m",".","f","a","s","t","q",".","g","z">>

TRIMLOG == <<"_","t","r","i","m","l","o","g",".","t","x","t">>

MERGED_ADAPTERS == in_cwd(<<"d","e","f","a","u","l","t","_","a","d","a","p","t","e","r","s",".","f","a","s","t","a">>)

-----------------------------------------------------------------------------
(* main(): the command line, lines 311-372                                 *)

drop_last(s) == SubSeq(s, 1, Len(s) - 1)

base_cli ==
    << <<"j","a","v","a">>,
       <<"-","X","m","x">> \o remove_spaces(lower(drop_last(task_memory))),
       <<"-","j","a","r">>, TRIM_PATH, <<"P","E">>, <<"-","t","h","r","e","a","d","s">>, task_cpus >>

\* the phred flag, or nothing when int(phred) raises ValueError
phred_cli(phred) ==
    IF int_ok(phred) THEN << <<"-","p","h","r","e","d">> \o py_str(py_int(phred)) >> ELSE <<>>

RECURSIVE output_names(_, _, _)
output_names(sample, i, n) ==
    IF i >= n THEN <<>>
    ELSE << sample \o <<"_">> \o py_str(i + 1) \o SUFFIX_TRIM,
            sample \o <<"_">> \o py_str(i + 1) \o SUFFIX_U >>
         \o output_names(sample, i + 1, n)

crop_cli_swapped(trim_range) ==
    IF trim_range # << <<"N","o","n","e">> >>
    THEN << <<"C","R","O","P",":">> \o trim_range[1], <<"H","E","A","D","C","R","O","P",":">> \o trim_range[2] >>
    ELSE <<>>

\* Python indexes from 0: trim_range[1] is the second element
crop_cli(trim_range) ==
    IF trim_range # << <<"N","o","n","e">> >>
    THEN << <<"C","R","O","P",":">> \o trim_range[2], <<"H","E","A","D","C","R","O","P",":">> \o trim_range[1] >>
    ELSE <<>>

must_merge_never(adapters_file, fs) == FALSE

\* whether main() falls back to merge_default_adapters()
must_merge(adapters_file, fs) == adapters_file \notin fs.files

\* merge_default_adapters(): (over)writes the merged file
merge_default_adapters(fs) == [fs EXCEPT !.files = @ \cup {MERGED_ADAPTERS}]

illuminaclip_cli(adapters_file) ==
    << <<"I","L","L","U","M","I","N","A","C","L","I","P",":">> \o adapters_file \o <<":","3",":","3","0",":","1","0",":","6",":","t","r","u","e">> >>

options_cli(trim_opts, sample_id) ==
    << <<"S","L","I","D","I","N","G","W","I","N","D","O","W",":">> \o trim_opts[1],
       <<"L","E","A","D","I","N","G",":">> \o trim_opts[2],
       <<"T","R","A","I","L","I","N","G",":">> \o trim_opts[3],
       <<"M","I","N","L","E","N",":">> \o trim_opts[4],
       <<"T","O","P","H","R","E","D","3","3">>,
       <<"-","t","r","i","m","l","o","g">>,
       sample_id \o TRIMLOG >>

FS == [files |-> files, links |-> links, raised |-> FALSE]

BuildCommand ==
    /\ pc = "start"
    /\ LET merge == must_merge(args.adapters_file, FS)
           fs == IF merge THEN merge_default_adapters(FS) ELSE FS
           adapters_file == IF merge THEN MERGED_ADAPTERS ELSE args.adapters_file
       IN /\ cli' = base_cli
                    \o phred_cli(args.phred)
                    \o args.fastq_pair
                    \o output_names(args.sample_id, 0, Len(args.fastq_pair))
                    \o crop_cli(args.trim_range)
                    \o illuminaclip_cli(adapters_file)
                    \o options_cli(args.trim_opts, args.sample_id)
          /\ merge_calls' = IF merge THEN merge_calls + 1 ELSE merge_calls
          /\ files' = fs.files
    /\ pc' = "built"
    /\ UNCHANGED <<args, tool, links, trimlog, p, stats, report_csv,
                   report_json, status, err>>

-----------------------------------------------------------------------------
(* main(): the subprocess, lines 376-391                                   *)

\* stderr.decode("utf8"), or str(stderr) when the bytes are not UTF-8
decode_stderr(raw) == IF raw.utf8 THEN raw.text ELSE "b'" \o raw.text \o "'"

\* Popen + communicate: returns once the tool has ended and written its files
RunTrimmomatic ==
    /\ pc = "built"
    /\ p' = [returncode |-> tool.returncode, stderr |-> decode_stderr(tool.stderr)]
    /\ files' = files \cup {in_cwd(n) : n \in tool.outputs}
    /\ trimlog' = IF tool.log.exists THEN tool.log ELSE trimlog
    /\ pc' = "invoked"
    /\ UNCHANGED <<args, tool, links, cli, merge_calls, stats, report_csv,
                   report_json, status, err>>

-----------------------------------------------------------------------------
(* parse_log(), lines 112-178                                              *)

template ==
    [clean_len |-> 0, total_trim |-> 0, total_trim_perc |-> 0,
     trim5 |-> 0, trim3 |-> 0, bad_reads |-> 0]

\* line.strip().split()[-4:], of a line given as its whitespace-separated tokens
last4(tokens) ==
    SubSeq(tokens, IF Len(tokens) > 4 THEN Len(tokens) - 3 ELSE 1, Len(tokens))

\* the exception that one line raises: int() of a token that is no integer
\* literal, then an index past the end of fields; "" when it raises nothing
line_error(line) ==
    IF \E i \in 1..Len(last4(line)) : ~int_ok(last4(line)[i]) THEN "ValueError"
    ELSE IF Len(last4(line)) < 4 THEN "IndexError"
    ELSE ""

add_fields_third(t, fields) ==
    [t EXCEPT !.bad_reads = IF fields[1] = 0 THEN @ + 1 ELSE @,
              !.trim5 = @ + fields[2],
              !.trim3 = @ + fields[3],
              !.total_trim = @ + fields[2] + fields[3],
              !.clean_len = @ + fields[1]]

\* lines 162-168; Python's fields[0..3] are fields[1..4] here
add_fields(t, fields) ==
    [t EXCEPT !.bad_reads = IF fields[1] = 0 THEN @ + 1 ELSE @,
              !.trim5 = @ + fields[2],
              !.trim3 = @ + fields[4],
              !.total_trim = @ + fields[2] + fields[4],
              !.clean_len = @ + fields[1]]

fields_of(line) == [i \in 1..4 |-> py_int(last4(line)[i])]

RECURSIVE scan_skipping(_, _, _)
scan_skipping(lines, i, t) ==
    IF i > Len(lines) THEN [err |-> "", t |-> t]
    ELSE IF line_error(lines[i]) # "" THEN scan_skipping(lines, i + 1, t)
    ELSE scan_skipping(lines, i + 1, add_fields(t, fields_of(lines[i])))

\* the for loop of lines 154-168: stops at the first line that raises
RECURSIVE scan(_, _, _)
scan(lines, i, t) ==
    IF i > Len(lines) THEN [err |-> "", t |-> t]
    ELSE IF line_error(lines[i]) # "" THEN [err |-> line_error(lines[i]), t |-> t]
    ELSE scan(lines, i + 1, add_fields(t, fields_of(lines[i])))

\* round((n / d) * 100, 2), in hundredths of a percent. The quotient is a
\* binary float: where the exact value lies halfway between two hundredths
\* the rounding direction depends on the float, so both neighbours are kept.
round2(n, d) ==
    LET num == IF d < 0 THEN 0 - (n * 10000) ELSE n * 10000
        den == IF d < 0 THEN 0 - d ELSE d
        q == num \div den
        r == num % den
    IN  IF 2 * r < den THEN {q} ELSE IF 2 * r > den THEN {q + 1} ELSE {q, q + 1}

perc_of_clean_len(t) ==
    IF t.clean_len # 0 THEN round2(t.total_trim, t.clean_len) ELSE {0}

\* lines 170-176: the values total_trim_perc may take
perc(t) ==
    IF t.clean_len + t.total_trim # 0
    THEN round2(t.total_trim, t.clean_len + t.total_trim)
    ELSE {0}

\* parse_log(log_file), of a file that exists: the exception it raises, or
\* the statistics it returns
parse_log(lines) ==
    IF scan(lines, 1, template).err # ""
    THEN {scan(lines, 1, template)}
    ELSE {[err |-> "", t |-> [scan(lines, 1, template).t EXCEPT !.total_trim_perc = v]] :
             v \in perc(scan(lines, 1, template).t)}

-----------------------------------------------------------------------------
(* write_report(), lines 181-222, and trimmomatic_log(), lines 225-235     *)

CSV_HEADER == "Sample,Total length,Total trimmed,%,5end Trim,3end Trim,bad_reads"

\* the values of the OrderedDict, in its key order
values(vals) ==
    <<vals.clean_len, vals.total_trim, vals.total_trim_perc, vals.trim5,
      vals.trim3, vals.bad_reads>>

csv_of(sample, vals) == <<CSV_HEADER, <<sample>> \o values(vals)>>

json_of(sample_id, vals) ==
    [tableRow |-> [sample |-> sample_id, header |-> "trimmed",
                   value |-> vals.total_trim_perc, table |-> "qc",
                   columnBar |-> TRUE],
     plotData |-> [sample |-> sample_id, sparkline |-> vals.clean_len],
     badReads |-> vals.bad_reads]

\* log_file.rstrip("_trimlog.txt")
log_id_of(log_file) == rstrip(log_file, TRIMLOG)

\* an exception leaves main(): nothing after the raising call runs
Raise(e) ==
    /\ pc' = "failed"
    /\ err' = e

TrimmomaticLog ==
    /\ pc = "invoked"
    /\ IF ~trimlog.exists
       THEN /\ Raise("FileNotFoundError")
            /\ UNCHANGED <<trimlog, stats, report_csv, report_json>>
       ELSE \E r \in parse_log(trimlog.content) :
            IF r.err # ""
            THEN /\ Raise(r.err)
                 /\ UNCHANGED <<trimlog, stats, report_csv, report_json>>
            ELSE /\ stats' = r.t
                 /\ trimlog' = NoFile
                 /\ report_csv' = File(csv_of(log_id_of(args.sample_id \o TRIMLOG), r.t))
                 /\ report_json' = File(json_of(args.sample_id, r.t))
                 /\ pc' = "logged"
                 /\ err' = err
    /\ UNCHANGED <<args, tool, files, links, cli, merge_calls, p, status>>

-----------------------------------------------------------------------------
(* clean_up(), lines 238-258                                               *)

HashPrefixLen == 2

HashRestLen == 30

\* "." of a regular expression: any character but a newline
Dot(s, from, to) == \A i \in from..to : s[i] # "\n"

\* re.match(".*/work/.{2}/.{30}/.*", rp): anchored at the start only, and the
\* trailing ".*" matches the empty string
re_match(rp) ==
    \E i \in 0..Len(rp) :
        /\ i + 6 + HashPrefixLen + 1 + HashRestLen + 1 <= Len(rp)
        /\ Dot(rp, 1, i)
        /\ SubSeq(rp, i + 1, i + 6) = <<"/","w","o","r","k","/">>
        /\ Dot(rp, i + 7, i + 6 + HashPrefixLen)
        /\ rp[i + 6 + HashPrefixLen + 1] = "/"
        /\ Dot(rp, i + 6 + HashPrefixLen + 2, i + 6 + HashPrefixLen + 1 + HashRestLen)
        /\ rp[i + 6 + HashPrefixLen + 1 + HashRestLen + 1] = "/"

unpaired_fastq(fs) == {f \in listdir(fs) : endswith(f, SUFFIX_U)}

\* os.remove(fpath) of every unpaired file: a link is unlinked, not followed
remove_unpaired(fs) ==
    [fs EXCEPT !.files = @ \ {in_cwd(f) : f \in unpaired_fastq(fs)},
               !.links = {l \in @ : l.name \notin unpaired_fastq(fs)}]

expected_out(fs) == {f \in listdir(fs) : endswith(f, SUFFIX_TRIM)}

safe_to_clear_any_count(clear, fs) == clear = "true"

\* line 252
safe_to_clear(clear, fs) == clear = "true" /\ Cardinality(expected_out(fs)) = 2

\* line 257
in_scratch(rp) == re_match(rp)

\* lines 253-258; os.remove of a missing file raises
RECURSIVE remove_inputs(_, _, _)
remove_inputs(fastq_pairs, i, fs) ==
    IF i > Len(fastq_pairs) \/ fs.raised THEN fs
    ELSE IF ~in_scratch(realpath(fastq_pairs[i], fs))
    THEN remove_inputs(fastq_pairs, i + 1, fs)
    ELSE IF realpath(fastq_pairs[i], fs) \in fs.files
    THEN remove_inputs(fastq_pairs, i + 1,
             [fs EXCEPT !.files = @ \ {realpath(fastq_pairs[i], fs)}])
    ELSE [fs EXCEPT !.raised = TRUE]

clean_up_gated(fastq_pairs, clear, fs) ==
    IF safe_to_clear(clear, fs)
    THEN remove_inputs(fastq_pairs, 1, remove_unpaired(fs))
    ELSE fs

clean_up(fastq_pairs, clear, fs) ==
    IF safe_to_clear(clear, remove_unpaired(fs))
    THEN remove_inputs(fastq_pairs, 1, remove_unpaired(fs))
    ELSE remove_unpaired(fs)

CleanUp ==
    /\ pc = "logged"
    /\ LET fs == clean_up(args.fastq_pair, args.clear, FS)
       IN  /\ files' = fs.files
           /\ links' = fs.links
           /\ pc' = IF fs.raised THEN "failed" ELSE "cleaned"
           /\ err' = IF fs.raised THEN "FileNotFoundError" ELSE err
    /\ UNCHANGED <<args, tool, trimlog, cli, merge_calls, p, stats, report_csv,
                   report_json, status>>

-----------------------------------------------------------------------------
(* main(): the status file, lines 399-404                                  *)

status_text_stderr(q) == IF q.returncode # 0 THEN q.stderr ELSE "pass"

status_text(q) == IF q.returncode # 0 THEN "fail" ELSE "pass"

WriteStatus ==
    /\ pc = "cleaned"
    /\ status' = status_text(p)
    /\ pc' = "done"
    /\ UNCHANGED <<args, tool, files, links, trimlog, cli, merge_calls, p, stats,
                   report_csv, report_json, err>>

-----------------------------------------------------------------------------
(* The runs that are explored: the arguments of main(), the files on disk  *)
(* when it starts, and what the external tool does                         *)

MaxLines == 2

Target(dir, name) == dir \o <<"/">> \o name

\* another task's work directory
ScratchDir == <<"/","w","o","r","k","/","d","e","/">> \o Rep("f", 30)

DataDir == <<"/","d","a","t","a","/","r","u","n","7">>

\* 14 + 1 + 15 characters after the two-character directory
SplitDir == <<"/","w","o","r","k","/","d","e","/">> \o Rep("f", 14) \o <<"/">> \o Rep("f", 15)

NoWorkDir == <<"/","t","m","p","/","d","e","/">> \o Rep("f", 30)

ShortDir == <<"/","w","o","r","k","/","d","e","/">> \o Rep("f", 29)

NewlineDir == <<"/","m","n","t","/","a">> \o <<"\n">> \o <<"b","/","w","o","r","k","/","d","e","/">> \o Rep("f", 30)

TargetDirs ==
    {ScratchDir, DataDir, SplitDir, NoWorkDir, ShortDir, NewlineDir}

\* an input: staged as a symbolic link, copied into the working directory,
\* or passed by its absolute path
InputChoices(name) ==
    {[fq |-> name, real |-> Target(d, name), link |-> TRUE] : d \in TargetDirs}
        \cup {[fq |-> name, real |-> in_cwd(name), link |-> FALSE]}
        \cup {[fq |-> Target(d, name), real |-> Target(d, name), link |-> FALSE] :
                 d \in {ScratchDir}}

Read1 == <<"r","_","1",".","f","a","s","t","q",".","g","z">>

Read2 == <<"r","_","2",".","f","a","s","t","q",".","g","z">>

DefaultInput(name) == [fq |-> name, real |-> Target(ScratchDir, name), link |-> TRUE]

SampleIds == {<<"s","1">>, <<"g","o","t">>, <<"E","c","o","l","i">>}

TrimRanges == {<< <<"N","o","n","e">> >>, << <<"1","5">>, <<"1","5","1">> >>, << <<"0">>, <<"9","0">> >>}

Phreds == {<<"3","3">>, <<"0","6","4">>, <<"N","A">>}

TrimOpts == << <<"5",":","2","0">>, <<"3">>, <<"3">>, <<"5","5">> >>

AdaptersChoices ==
    {[path |-> <<"N","o","n","e">>, exists |-> FALSE],
     [path |-> <<"/","d","b","/","a","d","a","p","t","e","r","s",".","f","a">>, exists |-> TRUE],
     [path |-> <<"/","d","b","/","a","d","a","p","t","e","r","s",".","f","a">>, exists |-> FALSE],
     [path |-> MERGED_ADAPTERS, exists |-> TRUE]}

Clears == {"true", "false", "True"}

\* the names the command line asks the tool to write
Out(sample, i, suffix) == sample \o <<"_">> \o py_str(i) \o suffix

OutputChoices(s) ==
    {{},
     {Out(s, 1, SUFFIX_TRIM), Out(s, 1, SUFFIX_U)},
     {Out(s, 1, SUFFIX_TRIM), Out(s, 2, SUFFIX_TRIM)},
     {Out(s, 1, SUFFIX_U), Out(s, 2, SUFFIX_U)},
     {Out(s, 1, SUFFIX_TRIM), Out(s, 1, SUFFIX_U),
      Out(s, 2, SUFFIX_TRIM), Out(s, 2, SUFFIX_U)}}

AllOutputs(s) ==
    {Out(s, 1, SUFFIX_TRIM), Out(s, 1, SUFFIX_U),
     Out(s, 2, SUFFIX_TRIM), Out(s, 2, SUFFIX_U)}

\* left in the working directory by an earlier run
StaleChoices ==
    {[files |-> {}, links |-> {}],
     [files |-> {in_cwd(<<"o","l","d","_","1","_","t","r","i","m",".","f","a","s","t","q",".","g","z">>)}, links |-> {}],
     [files |-> {},
      links |-> {[name |-> <<"o","l","d","_","1","_","U",".","f","a","s","t","q",".","g","z">>,
                  target |-> Target(DataDir, <<"o","l","d","_","1","_","U",".","f","a","s","t","q",".","g","z">>)]}]}

NoStale == [files |-> {}, links |-> {}]

\* the numbers written in the trim logs, and their decimal text
LogVals == {0, 1, 30, 31, 20000}

Dec(n) ==
    CASE n = 0 -> <<"0">> [] n = 1 -> <<"1">> [] n = 30 -> <<"3","0">> [] n = 31 -> <<"3","1">>
      [] n = 20000 -> <<"2","0","0","0","0">>

\* a line of the trim log: the read name, then the four numbers
ReadLine(name, f) == name \o <<Dec(f[1]), Dec(f[2]), Dec(f[3]), Dec(f[4])>>

WellFormedLines ==
    {ReadLine(<< <<"r","e","a","d">> >>, <<a, b, IF a = 0 THEN 0 ELSE 30, d>>) :
        a \in {0, 31}, b \in {0, 1}, d \in {0, 1}}
        \cup {ReadLine(<< <<"r","e","a","d">> >>, <<0, 0, 30, 0>>),
              ReadLine(<< <<"r","e","a","d">> >>, <<20000, 1, 0, 0>>),
              ReadLine(<< <<"9">> >>, <<31, 1, 30, 0>>),
              ReadLine(<< <<"r","e","a","d">>, <<"1",":","N",":","0">> >>, <<30, 0, 30, 1>>)}

MalformedLines ==
    {<<>>,
     << <<"3","1">>, <<"0">>, <<"3","0">> >>,
     << <<"r","e","a","d">>, <<"3","1">>, <<"x">>, <<"3","0">>, <<"0">> >>,
     << <<"r","e","a","d">>, <<"3","1">>, <<"1">>, <<"3","0">>, <<"1",".","5">> >>}

LogLines == WellFormedLines \cup MalformedLines

RECURSIVE SeqsUpTo(_, _)
SeqsUpTo(S, n) ==
    IF n = 0 THEN {<<>>}
    ELSE SeqsUpTo(S, n - 1)
           \cup {Append(s, x) : s \in {t \in SeqsUpTo(S, n - 1) : Len(t) = n - 1}, x \in S}

Logs == SeqsUpTo(LogLines, MaxLines)

DefaultLog ==
    << ReadLine(<< <<"r","e","a","d">> >>, <<31, 0, 30, 1>>), ReadLine(<< <<"r","e","a","d">> >>, <<0, 1, 0, 0>>) >>

Stderrs ==
    {[utf8 |-> TRUE, text |-> "TrimmomaticPE: Completed successfully"],
     [utf8 |-> FALSE, text |-> "\\xff"]}

DefaultStderr == [utf8 |-> TRUE, text |-> "TrimmomaticPE: Completed successfully"]

Run(sample_id, in1, in2, trim_range, phred, adapters, clear, stale, outcome) ==
    [args |-> [sample_id |-> sample_id,
               fastq_pair |-> <<in1.fq, in2.fq>>,
               trim_range |-> trim_range,
               trim_opts |-> TrimOpts,
               phred |-> phred,
               adapters_file |-> adapters.path,
               clear |-> clear],
     tool |-> outcome,
     files |-> {in1.real, in2.real} \cup stale.files
                  \cup (IF adapters.exists THEN {adapters.path} ELSE {}),
     links |-> {[name |-> i.fq, target |-> i.real] : i \in {j \in {in1, in2} : j.link}}
                  \cup stale.links]

\* runs that vary what the command line is built from
CommandRuns ==
    {Run(s, DefaultInput(Read1), DefaultInput(Read2), r, ph, ad, "true", NoStale,
         [returncode |-> rc, stderr |-> e, log |-> File(DefaultLog), outputs |-> AllOutputs(s)]) :
        s \in SampleIds, r \in TrimRanges, ph \in Phreds, ad \in AdaptersChoices,
        rc \in {0, 1, 2}, e \in Stderrs}

\* runs that vary the files that clean_up() finds
CleanUpRuns ==
    {Run(<<"s","1">>, in1, in2, << <<"N","o","n","e">> >>, <<"3","3">>, [path |-> <<"N","o","n","e">>, exists |-> FALSE],
         c, st,
         [returncode |-> rc, stderr |-> DefaultStderr, log |-> File(DefaultLog), outputs |-> o]) :
        in1 \in InputChoices(Read1), in2 \in InputChoices(Read2), c \in Clears,
        st \in StaleChoices, o \in OutputChoices(<<"s","1">>), rc \in {1}}

\* runs that vary the trim log
LogRuns ==
    {Run(<<"s","1">>, DefaultInput(Read1), DefaultInput(Read2), << <<"N","o","n","e">> >>, <<"3","3">>,
         [path |-> <<"N","o","n","e">>, exists |-> FALSE], "true", NoStale,
         [returncode |-> rc, stderr |-> DefaultStderr, log |-> l,
          outputs |-> AllOutputs(<<"s","1">>)]) :
        l \in {File(x) : x \in Logs} \cup {NoFile}, rc \in {0, 2}}

Runs == CommandRuns \cup CleanUpRuns \cup LogRuns

Init ==
    /\ \E r \in Runs :
          /\ args = r.args
          /\ tool = r.tool
          /\ files = r.files
          /\ links = r.links
    /\ pc = "start"
    /\ trimlog = NoFile
    /\ cli = <<>>
    /\ merge_calls = 0
    /\ p = [returncode |-> 0, stderr |-> ""]
    /\ stats = template
    /\ report_csv = NoFile
    /\ report_json = NoFile
    /\ status = ""
    /\ err = ""

Next ==
    \/ BuildCommand
    \/ RunTrimmomatic
    \/ TrimmomaticLog
    \/ CleanUp
    \/ WriteStatus

Spec == Init /\ [][Next]_vars

-----------------------------------------------------------------------------
(* What the claims speak of                                                *)

\* clean_up() has returned
Cleaned == pc \in {"cleaned", "done"}

\* parse_log() has returned the statistics
Parsed == pc \in {"logged", "cleaned", "done"}

\* the subprocess has returned
Returned == pc \notin {"start", "built"}

Disk == [files |-> files, links |-> links]

\* the symlink-resolved real path of the i-th original input
InputPath(i) == realpath(args.fastq_pair[i], Disk)

\* the paired-trimmed outputs in the working directory
TrimmedOutputs == {f \in files : IsCwdEntry(f) /\ endswith(f, SUFFIX_TRIM)}

\* the unpaired outputs in the working directory, files and links
UnpairedLeft ==
    {f \in files : IsCwdEntry(f) /\ endswith(f, SUFFIX_U)}
        \cup {l.name : l \in {k \in links : endswith(k.name, SUFFIX_U)}}

ToolWroteUnpaired == \E n \in tool.outputs : endswith(n, SUFFIX_U)

\* the four numbers that end a well-formed line, read back from their text
NumOf(text) == CHOOSE n \in LogVals : Dec(n) = text

LineNums(line) == [k \in 1..4 |-> NumOf(line[Len(line) - 4 + k])]

\* sum over the lines of post_trim_length + start_trim + end_trim
RECURSIVE LogSum(_)
LogSum(lines) ==
    IF lines = <<>> THEN 0
    ELSE LineNums(Head(lines))[1] + LineNums(Head(lines))[2]
           + LineNums(Head(lines))[4] + LogSum(Tail(lines))

RECURSIVE CleanSum(_)
CleanSum(lines) ==
    IF lines = <<>> THEN 0 ELSE LineNums(Head(lines))[1] + CleanSum(Tail(lines))

LogOf(t) == t.log.content

WellFormedLog ==
    tool.log.exists /\ \A k \in 1..Len(LogOf(tool)) : LogOf(tool)[k] \in WellFormedLines

MalformedLog ==
    tool.log.exists /\ \E k \in 1..Len(LogOf(tool)) : LogOf(tool)[k] \in MalformedLines

TotalLen == stats.clean_len + stats.total_trim

Abs(x) == IF x < 0 THEN 0 - x ELSE x

SlashAt(path) == {i \in 1..Len(path) : path[i] = "/"}

\* a directory segment of exactly two characters immediately followed by a
\* directory segment of exactly thirty characters
HasScratchSegments(path) ==
    \E a \in SlashAt(path) :
        /\ a + 3 \in SlashAt(path)
        /\ a + 34 \in SlashAt(path)
        /\ \A i \in (a + 1)..(a + 33) : i \in SlashAt(path) => i = a + 3

CropAt == {i \in 1..Len(cli) : startswith(cli[i], <<"C","R","O","P",":">>)}

HeadCropAt == {i \in 1..Len(cli) : startswith(cli[i], <<"H","E","A","D","C","R","O","P",":">>)}

ClipAt == {i \in 1..Len(cli) : startswith(cli[i], <<"I","L","L","U","M","I","N","A","C","L","I","P",":">>)}

\* the given adapters file is on disk (nothing in a run adds or removes it)
AdaptersGiven == args.adapters_file \in files

-----------------------------------------------------------------------------
(* The claims                                                              *)

\* C1: after clean_up, an original input whose file is gone from its real
\* path was removed under the full gate: clear is exactly "true", exactly
\* two *_trim.fastq.gz files are in the working directory, and its real path
\* matches the scratch pattern. In every other combination the file is still
\* there, also when the other input of the pair was removed.
C1_InputsRemovedOnlyWhenSafe ==
    Cleaned =>
        \A i \in 1..Len(args.fastq_pair) :
            InputPath(i) \notin files =>
                /\ args.clear = "true"
                /\ Cardinality(TrimmedOutputs) = 2
                /\ re_match(InputPath(i))

C1_Witness ==
    /\ Cleaned
    /\ InputPath(1) \notin files
    /\ InputPath(2) \in files
    /\ ~re_match(InputPath(2))

\* C2: a malformed line anywhere in the trim log ends the run in parse_log:
\* no CSV report, no JSON summary, no clean_up (unpaired outputs and inputs
\* stay, the log stays) and no status written by main.
C2_MalformedLogAborts ==
    (Returned /\ MalformedLog) =>
        /\ pc \in {"invoked", "failed"}
        /\ pc = "failed" => err \in {"ValueError", "IndexError"}
        /\ ~report_csv.exists
        /\ ~report_json.exists
        /\ status = ""
        /\ trimlog.exists
        /\ \A n \in tool.outputs : in_cwd(n) \in files
        /\ \A i \in 1..Len(args.fastq_pair) : InputPath(i) \in files

C2_Witness ==
    /\ pc = "failed"
    /\ MalformedLog
    /\ Len(LogOf(tool)) >= 2
    /\ LogOf(tool)[1] \in WellFormedLines
    /\ args.clear = "true"
    /\ ToolWroteUnpaired
    /\ Cardinality(TrimmedOutputs) = 2

\* both reports are on disk, made from the log
ReportsFromLog ==
    /\ report_csv.exists
    /\ report_json.exists
    /\ report_json.content.plotData.sparkline = CleanSum(LogOf(tool))

C4_TotalsAccountForLog ==
    Parsed => stats.clean_len + stats.total_trim = LogSum(LogOf(tool))

C4_Witness ==
    /\ Parsed
    /\ Len(LogOf(tool)) = 2
    /\ LineNums(LogOf(tool)[1])[3] # LineNums(LogOf(tool)[1])[4]
    /\ LineNums(LogOf(tool)[2])[3] # 0
    /\ stats.total_trim > 0

\* C5, as stated: total_trim_perc is 0 if and only if total_len is 0.
C5_Original ==
    Parsed => (stats.total_trim_perc = 0 <=> TotalLen = 0)

\* C5, amended: total_trim_perc is 0 when total_len is 0; with total_len > 0
\* it is 100 * total_trim / total_len rounded to two decimals (kept here in
\* hundredths), which is 0 as well whenever that share rounds to 0.00, as it
\* does when total_trim is 0.
C5_PercIsRoundedShare ==
    Parsed =>
        /\ TotalLen = 0 => stats.total_trim_perc = 0
        /\ TotalLen > 0 =>
               2 * Abs(stats.total_trim_perc * TotalLen - 10000 * stats.total_trim)
                   <= TotalLen
        /\ stats.total_trim = 0 => stats.total_trim_perc = 0
        /\ (TotalLen > 0 /\ 20000 * stats.total_trim < TotalLen)
               => stats.total_trim_perc = 0

C5_Witness ==
    /\ Parsed
    /\ TotalLen > 0
    /\ stats.total_trim > 0
    /\ stats.total_trim_perc = 0

\* C6: after clean_up no *_U.fastq.gz entry is left in the working
\* directory, whatever the clear flag and the number of paired-trimmed
\* outputs.
C6_NoUnpairedLeft ==
    Cleaned => UnpairedLeft = {}

C6_Witness ==
    /\ Cleaned
    /\ ToolWroteUnpaired
    /\ args.clear # "true"
    /\ Cardinality(TrimmedOutputs) # 2

\* C7: with a trim range the command line holds exactly one CROP and one
\* HEADCROP directive, CROP first and HEADCROP right after it, CROP with the
\* second element of trim_range and HEADCROP with the first; with the "no
\* crop" value it holds neither.
C7_CropDirectives ==
    pc # "start" =>
        IF args.trim_range = << <<"N","o","n","e">> >>
        THEN CropAt = {} /\ HeadCropAt = {}
        ELSE \E i \in 1..(Len(cli) - 1) :
                /\ CropAt = {i}
                /\ HeadCropAt = {i + 1}
                /\ cli[i] = <<"C","R","O","P",":">> \o args.trim_range[2]
                /\ cli[i + 1] = <<"H","E","A","D","C","R","O","P",":">> \o args.trim_range[1]

C7_Witness ==
    /\ pc = "built"
    /\ args.trim_range = << <<"1","5">>, <<"1","5","1">> >>
    /\ \E i \in 1..(Len(cli) - 1) :
          cli[i] = <<"C","R","O","P",":","1","5","1">> /\ cli[i + 1] = <<"H","E","A","D","C","R","O","P",":","1","5">>

\* C8: when the given adapters file is not on disk, merge_default_adapters
\* is called exactly once and the one ILLUMINACLIP directive names the merged
\* file in the working directory, with 3:30:10:6:true; when it is on disk,
\* there is no call, no merged file is written and the directive names the
\* given path.
C8_AdaptersFallback ==
    pc # "start" =>
        \E i \in 1..Len(cli) :
            /\ ClipAt = {i}
            /\ IF AdaptersGiven
               THEN /\ merge_calls = 0
                    /\ MERGED_ADAPTERS \in files => args.adapters_file = MERGED_ADAPTERS
                    /\ cli[i] = <<"I","L","L","U","M","I","N","A","C","L","I","P",":">> \o args.adapters_file
                                    \o <<":","3",":","3","0",":","1","0",":","6",":","t","r","u","e">>
               ELSE /\ merge_calls = 1
                    /\ MERGED_ADAPTERS \in files
                    /\ cli[i] = <<"I","L","L","U","M","I","N","A","C","L","I","P",":">> \o CWD \o <<"/","d","e","f","a","u","l","t","_","a","d","a","p","t","e","r","s",".","f","a","s","t","a">>
                                    \o <<":","3",":","3","0",":","1","0",":","6",":","t","r","u","e">>

C8_Witness ==
    /\ pc = "built"
    /\ ~AdaptersGiven
    /\ merge_calls = 1
    /\ MERGED_ADAPTERS \in files

\* C9, as stated: an input is removed only if its real path holds a
\* two-character directory segment immediately followed by a
\* thirty-character directory segment.
C9_Original ==
    Cleaned =>
        \A i \in 1..Len(args.fastq_pair) :
            InputPath(i) \notin files => HasScratchSegments(InputPath(i))

\* C10, as stated: the label of the CSV row is the sample id, and so equals
\* the "sample" of the JSON summary.
C10_Original ==
    report_csv.exists =>
        /\ report_csv.content[2][1] = args.sample_id
        /\ report_csv.content[2][1] = report_json.content.tableRow.sample

=============================================================================
